---- MODULE Spec2Model ----
(***************************************************************************)
(* Auth & abuse-control core of the FastAPI todo service                   *)
(* (src/FastAPI/main.py and its cloud/ variant): bearer tokens, the        *)
(* failed-login tracker, the slowapi rate limiter and the routes that use  *)
(* them.  Time is counted in ticks of half a minute.                       *)
(***************************************************************************)
EXTENDS Integers, Sequences, FiniteSets, TLC

\* ---------------------------------------------------------------- bounds
MaxTime == 32          \* the clock stops advancing here (ticks)
MaxHits == 6           \* hits one limiter key may take inside one window
MaxTodos == 1          \* rows the todo table may hold
MaxRouteHits == 2      \* hits a todo-route limiter key may take inside one window
MaxInflight == 2       \* login requests that may be in progress at once
MaxFineTime == 2       \* the clock advances by single ticks up to here
MaxRaceHits == 2       \* logins one client may start inside one window when requests overlap

\* ------------------------------------------------------ program constants
MAX_FAILED_ATTEMPTS == 5
BLOCK_DURATION == 15
ACCESS_TOKEN_EXPIRE_MINUTES == 60
DEFAULT_EXPIRE_MINUTES == 15
LOGIN_LIMIT == 5
CREATE_LIMIT == 20
LIST_LIMIT == 100
RATE_WINDOW == 1

\* datetime.utcnow() is read in ticks; a timedelta(minutes=n) is n minutes
TicksPerMinute == 2
Minutes(n) == n * TicksPerMinute

\* ------------------------------------------------------------ input sets
Clients == {"ip1", "ip2"}
Emails == {"a@x.com", "b@x.com"}
\* a password is the sequence of its characters (one byte each)
Secret1 == <<"s", "e", "c", "r", "e", "t", "1">>
Wrong1 == <<"w", "r", "o", "n", "g", "1">>
Passwords == {Secret1, Wrong1}
Salts == {1, 2}
Steps == {Minutes(5), Minutes(10)}   \* time that passes between two observed instants
SECRET_KEY == "k"
OtherKey == "forged"
NoSub == "<none>"      \* payload without a "sub" entry
NoExp == -100          \* payload without an "exp" entry
NoDelta == -1          \* expires_delta=None
TTLs == {NoDelta, 0, Minutes(1), Minutes(ACCESS_TOKEN_EXPIRE_MINUTES)}

VARIABLES
  now,              \* datetime.utcnow(), in ticks
  users,            \* table "users": email -> row
  todos,            \* table "todos": set of rows
  failed_attempts,  \* defaultdict(list): client ip -> list of timestamps
  rate,             \* limiter storage: <<client, route>> -> counter, expiry
  recorded,         \* history: failures recorded per client since the
                    \* client's entry was last deleted
  accepted,         \* history: per limiter key, the times of the hits the
                    \* limiter let through during the last window length
  inflight,         \* login requests being handled step by step
  resp              \* the response to the latest request

vars == <<now, users, todos, failed_attempts, rate, recorded, accepted,
          inflight, resp>>

\* ------------------------------------------------------ credential store
\* passlib bcrypt: a salted one-way digest; the salt is stored in the hash.
\* bcrypt reads the first 72 bytes of the password and no more
BCRYPT_MAX_BYTES == 72
bcrypt_key(password) ==
  IF Len(password) <= BCRYPT_MAX_BYTES THEN password
  ELSE SubSeq(password, 1, BCRYPT_MAX_BYTES)

get_password_hash(password, salt) ==
  [salt |-> salt, digest |-> <<salt, bcrypt_key(password)>>]

\* a stored string that is not a bcrypt hash
MalformedHash == [salt |-> -1, digest |-> <<>>]

\* pwd_context.verify identifies the scheme of the stored string first and
\* raises (UnknownHashError, a ValueError) when it is no bcrypt hash
verify_raises(hashed_password) == hashed_password = MalformedHash

\* a verification that accepts every password
verify_password_any(plain_password, hashed_password) == TRUE

\* pwd_context.verify(plain_password, hashed_password)
verify_password(plain_password, hashed_password) ==
  hashed_password.digest = <<hashed_password.salt, bcrypt_key(plain_password)>>


NoUser == [id |-> 0, email |-> "", hashed_password |-> get_password_hash(<<>>, 0)]

\* get_user finding nobody
get_user_blind(db, email) == NoUser

\* db.query(UserDB).filter(UserDB.email == email).first()
get_user(db, email) ==
  IF email \in DOMAIN db THEN db[email] ELSE NoUser

\* False is modelled as NoUser
authenticate_user(db, email, password) ==
  LET user == get_user(db, email) IN
    IF user = NoUser THEN NoUser
    ELSE IF ~verify_password(password, user.hashed_password) THEN NoUser
    ELSE user

\* ---------------------------------------------------------- token service
\* jose: the token is the payload plus an HMAC over it under the key.
jwt_encode(sub, exp, key) ==
  [sub |-> sub, exp |-> exp, mac |-> <<key, sub, exp>>]

\* jose jwt.decode: signature first, then "exp" (expired iff exp < now).
jwt_decode(token, key, t) ==
  IF token.mac # <<key, token.sub, token.exp>>
    THEN [ok |-> FALSE, err |-> "signature", sub |-> NoSub]
  ELSE IF token.exp # NoExp /\ token.exp < t
    THEN [ok |-> FALSE, err |-> "expired", sub |-> NoSub]
  ELSE [ok |-> TRUE, err |-> "", sub |-> token.sub]

\* create_access_token signing with an empty key
create_access_token_unsigned(sub, expires_delta, t) ==
  LET expire == IF expires_delta # NoDelta /\ expires_delta # 0
                  THEN t + expires_delta
                  ELSE t + Minutes(DEFAULT_EXPIRE_MINUTES)
  IN jwt_encode(sub, expire, "")

\* "if expires_delta:" is false for None and for timedelta(0)
create_access_token(sub, expires_delta, t) ==
  LET expire == IF expires_delta # NoDelta /\ expires_delta # 0
                  THEN t + expires_delta
                  ELSE t + Minutes(DEFAULT_EXPIRE_MINUTES)
  IN jwt_encode(sub, expire, SECRET_KEY)

NoToken == [sub |-> NoSub, exp |-> NoExp, mac |-> <<"", NoSub, NoExp>>]

\* -------------------------------------------------------- attempt tracker
RECURSIVE SelectRecentInclusive(_, _)
\* SelectRecent with "<=" for "<"
SelectRecentInclusive(attempts, t) ==
  IF attempts = <<>> THEN <<>>
  ELSE LET rest == SelectRecentInclusive(Tail(attempts), t) IN
       IF t - Head(attempts) <= Minutes(BLOCK_DURATION)
         THEN <<Head(attempts)>> \o rest
         ELSE rest

\* a comprehension that keeps every attempt, however old
SelectRecentKeepAll(attempts, t) == attempts

RECURSIVE SelectRecent(_, _)
\* [attempt for attempt in attempts if now - attempt < BLOCK_DURATION]
SelectRecent(attempts, t) ==
  IF attempts = <<>> THEN <<>>
  ELSE LET rest == SelectRecent(Tail(attempts), t) IN
       IF t - Head(attempts) < Minutes(BLOCK_DURATION)
         THEN <<Head(attempts)>> \o rest
         ELSE rest

\* a tracker that reads one list for every client
attempts_of_shared(fa, client_ip) ==
  IF DOMAIN fa = {} THEN <<>> ELSE fa[CHOOSE k \in DOMAIN fa : TRUE]

\* failed_attempts.get(client_ip, [])
attempts_of(fa, client_ip) ==
  IF client_ip \in DOMAIN fa THEN fa[client_ip] ELSE <<>>

\* a dict assignment d[k] = v
DictSet(d, k, v) == [x \in DOMAIN d \cup {k} |-> IF x = k THEN v ELSE d[x]]

\* del d[k]
DictDel(d, k) == [x \in DOMAIN d \ {k} |-> d[x]]

\* an is_ip_blocked that never locks a client out
is_ip_blocked_never(fa, client_ip, t) == FALSE

\* is_ip_blocked with ">" for ">="
is_ip_blocked_above(fa, client_ip, t) ==
  Len(SelectRecent(attempts_of(fa, client_ip), t)) > MAX_FAILED_ATTEMPTS

\* the value is_ip_blocked returns
is_ip_blocked(fa, client_ip, t) ==
  Len(SelectRecent(attempts_of(fa, client_ip), t)) >= MAX_FAILED_ATTEMPTS

\* an is_ip_blocked that stores the attempt it is judging as one more failure
is_ip_blocked_store_extending(fa, client_ip, t) ==
  DictSet(fa, client_ip, Append(SelectRecent(attempts_of(fa, client_ip), t), t))

\* the dictionary is_ip_blocked leaves behind (the pruned list is stored)
is_ip_blocked_store(fa, client_ip, t) ==
  DictSet(fa, client_ip, SelectRecent(attempts_of(fa, client_ip), t))

\* record_failed_attempt appending to a copy that is thrown away
record_failed_attempt_lost(fa, client_ip, t) ==
  DictSet(fa, client_ip, attempts_of(fa, client_ip))

\* failed_attempts[client_ip].append(datetime.utcnow())
record_failed_attempt(fa, client_ip, t) ==
  DictSet(fa, client_ip, Append(attempts_of(fa, client_ip), t))

\* ------------------------------------------------------------ rate limiter
\* slowapi Limiter(key_func=get_remote_address): in-memory storage, fixed
\* window; one counter per (client address, decorated route).
RouteLimit(route) ==
  CASE route = "login" -> LOGIN_LIMIT
    [] route = "create_todo" -> CREATE_LIMIT
    [] route = "list_todos" -> LIST_LIMIT

\* the live counter of a key: an entry whose expiry has passed is gone
LiveCount(rt, key, t) ==
  IF key \in DOMAIN rt /\ rt[key].expiry > t THEN rt[key].count ELSE 0

\* a limiter whose hit counts against every route of the client
limiter_incr_all_routes(rt, key, t) ==
  LET bump(k) == IF LiveCount(rt, k, t) = 0
                   THEN [count |-> 1, expiry |-> t + Minutes(RATE_WINDOW)]
                   ELSE [rt[k] EXCEPT !.count = @ + 1]
  IN [k \in DOMAIN rt \cup {key} |-> IF k[1] = key[1] THEN bump(k) ELSE rt[k]]

\* storage.incr: the counter after this hit; the first hit of a window
\* sets its expiry
limiter_incr(rt, key, t) ==
  IF LiveCount(rt, key, t) = 0
    THEN DictSet(rt, key, [count |-> 1, expiry |-> t + Minutes(RATE_WINDOW)])
    ELSE DictSet(rt, key, [rt[key] EXCEPT !.count = @ + 1])

\* a limiter that counts and never rejects
limiter_allows_always(rt, key, t) ==
  limiter_incr(rt, key, t)[key].count >= 0

\* limiter_allows with "<" for "<="
limiter_allows_below(rt, key, t) ==
  limiter_incr(rt, key, t)[key].count < RouteLimit(key[2])

\* hit(): the request is allowed iff the counter it produced is within
\* the limit
limiter_allows(rt, key, t) ==
  limiter_incr(rt, key, t)[key].count <= RouteLimit(key[2])

\* the counter stays below the bound of the model
HitFits(rt, key, t) ==
  LiveCount(rt, key, t) < (IF key[2] = "login" THEN MaxHits ELSE MaxRouteHits)

\* --------------------------------------------------------------- responses
UserOut(user) == [id |-> user.id, email |-> user.email]

\* the Authorization header: absent, or "Bearer <token>"
NoCred == [present |-> FALSE, token |-> NoToken]
Bearer(token) == [present |-> TRUE, token |-> token]

\* What the latest request got back, and what its handler did on the way:
\* cred = the Authorization header it carried, body = the route function
\* was entered, good = the password sent matches the stored hash,
\* dropped = entries the request deleted from the tracker, sub = the email
\* or subject the request named, ttl = the expires_delta asked for,
\* count = rows a listing returned, password = the password the request
\* carried, aged = entries is_ip_blocked found too old and left out of the
\* list it stored, items = ids of the rows a listing returned.
Response(op, client, status, detail) ==
  [op |-> op, client |-> client, status |-> status, detail |-> detail,
   headers |-> "", token |-> NoToken, user |-> UserOut(NoUser),
   cred |-> NoCred, body |-> FALSE, good |-> FALSE, dropped |-> 0,
   sub |-> NoSub, ttl |-> NoDelta, count |-> 0, password |-> <<>>,
   aged |-> 0, items |-> {}]

\* no request has been answered at the current instant
NoResponse == Response("none", "", 0, "")

\* ------------------------------------------------------------------- Init
Init ==
  /\ now = 0
  /\ users = << >>
  /\ todos = {}
  /\ failed_attempts = << >>
  /\ rate = << >>
  /\ recorded = [c \in Clients |-> <<>>]
  /\ accepted = << >>
  /\ inflight = << >>
  /\ resp = NoResponse

\* ------------------------------------------------------------------ clock
\* the storage's timer drops the counters whose expiry has passed
limiter_expire(rt, t) ==
  LET live == {k \in DOMAIN rt : rt[k].expiry > t} IN [k \in live |-> rt[k]]

RECURSIVE StillYoung(_, _)
\* the entries of a history that are less than 15 minutes old at t; the
\* others can never count again
StillYoung(h, t) ==
  IF h = <<>> THEN <<>>
  ELSE IF t - Head(h) >= Minutes(15) THEN StillYoung(Tail(h), t)
  ELSE <<Head(h)>> \o StillYoung(Tail(h), t)

\* the history of let-through hits: the hits of key, the history with one
\* more hit, and the history without the hits a window length old or older
accepted_of(acc, key) ==
  IF key \in DOMAIN acc THEN acc[key] ELSE <<>>

note_accepted(acc, key, t) ==
  DictSet(acc, key, Append(accepted_of(acc, key), t))

accepted_prune(acc, t) ==
  LET Young(ts) == t - ts < Minutes(1)
      keep == {k \in DOMAIN acc : \E i \in DOMAIN acc[k] : Young(acc[k][i])}
  IN [k \in keep |-> SelectSeq(acc[k], Young)]

TickBy(steps) ==
  /\ \E d \in steps :
       /\ now + d <= MaxTime
       /\ now' = now + d
  /\ rate' = limiter_expire(rate, now')
  /\ recorded' = [c \in Clients |-> StillYoung(recorded[c], now')]
  /\ accepted' = accepted_prune(accepted, now')
  /\ resp' = NoResponse
  /\ UNCHANGED <<users, todos, failed_attempts, inflight>>

\* ------------------------------------------------------- POST /auth/register
register(email, password, salt) ==
  /\ IF get_user(users, email) # NoUser
       THEN /\ resp' = [Response("register", "", 400, "Email has been registered")
                          EXCEPT !.body = TRUE, !.sub = email,
                                 !.password = password,
                                 !.good = verify_password(password,
                                            get_user(users, email).hashed_password)]
            /\ UNCHANGED users
       ELSE LET db_user == [id |-> Cardinality(DOMAIN users) + 1,
                            email |-> email,
                            hashed_password |-> get_password_hash(password, salt)]
            IN /\ users' = DictSet(users, email, db_user)
               /\ resp' = [Response("register", "", 200, "")
                             EXCEPT !.body = TRUE, !.sub = email,
                                    !.password = password,
                                    !.user = UserOut(db_user)]
  /\ UNCHANGED <<now, todos, failed_attempts, rate, recorded, accepted, inflight>>

\* ---------------------------------------------------------- POST /auth/login
\* the login leaving the failure list in place
clear_failed_attempts_skipped(fa, client_ip) == fa

\* if client_ip in failed_attempts: del failed_attempts[client_ip]
clear_failed_attempts(fa, client_ip) ==
  IF client_ip \in DOMAIN fa THEN DictDel(fa, client_ip) ELSE fa

login(client_ip, email, password) ==
  LET key == <<client_ip, "login">>
      good == authenticate_user(users, email, password) # NoUser
  IN
  /\ HitFits(rate, key, now)
  /\ rate' = limiter_incr(rate, key, now)
  /\ IF ~limiter_allows(rate, key, now)
       THEN \* RateLimitExceeded, raised before the function body runs
            /\ resp' = [Response("login", client_ip, 429, "Rate limit exceeded")
                          EXCEPT !.good = good, !.sub = email,
                                 !.password = password]
            /\ UNCHANGED <<failed_attempts, recorded, accepted>>
     ELSE LET pruned == is_ip_blocked_store(failed_attempts, client_ip, now)
              aged == Len(attempts_of(failed_attempts, client_ip))
                        - Len(attempts_of(pruned, client_ip))
              user == authenticate_user(users, email, password)
              raised == /\ get_user(users, email) # NoUser
                        /\ verify_raises(get_user(users, email).hashed_password)
          IN
          /\ accepted' = note_accepted(accepted, key, now)
          /\ IF is_ip_blocked(failed_attempts, client_ip, now)
               THEN /\ failed_attempts' = pruned
                    /\ resp' = [Response("login", client_ip, 429,
                                         "Too many failed attempts")
                                  EXCEPT !.body = TRUE, !.good = good,
                                         !.sub = email,
                                         !.password = password, !.aged = aged]
                    /\ UNCHANGED recorded
             ELSE IF raised
               THEN \* the exception leaves login unhandled: 500, after
                    \* is_ip_blocked has stored the pruned list
                    /\ failed_attempts' = pruned
                    /\ resp' = [Response("login", client_ip, 500,
                                         "Internal Server Error")
                                  EXCEPT !.sub = email, !.body = TRUE,
                                         !.password = password, !.aged = aged]
                    /\ UNCHANGED recorded
             ELSE IF user = NoUser
               THEN /\ failed_attempts' = record_failed_attempt(pruned, client_ip, now)
                    /\ recorded' = [recorded EXCEPT ![client_ip] = Append(@, now)]
                    /\ resp' = [Response("login", client_ip, 401,
                                         "Incorrect email or password")
                                  EXCEPT !.body = TRUE,
                                         !.headers = "WWW-Authenticate: Bearer",
                                         !.sub = email,
                                         !.password = password, !.aged = aged]
               ELSE /\ failed_attempts' = clear_failed_attempts(pruned, client_ip)
                    /\ recorded' = [recorded EXCEPT ![client_ip] = <<>>]
                    /\ resp' = [Response("login", client_ip, 200, "")
                                  EXCEPT !.body = TRUE, !.good = TRUE, !.sub = email,
                                         !.password = password, !.aged = aged,
                                         !.dropped = Len(attempts_of(pruned, client_ip)),
                                         !.token = create_access_token(user.email,
                                                     Minutes(ACCESS_TOKEN_EXPIRE_MINUTES), now)]
  /\ UNCHANGED <<now, users, todos, inflight>>

\* ------------------------------------------------------- require identity
\* HTTPBearer(): a request without "Authorization: Bearer ..." is answered
\* 403 before any dependent code runs.
\* get_current_user: the outcome of the guard, [status, detail, headers, user]
Unauthenticated ==
  [status |-> 403, detail |-> "Not authenticated", headers |-> "", user |-> NoUser]

credentials_exception ==
  [status |-> 401, detail |-> "Could not validate credentials",
   headers |-> "WWW-Authenticate: Bearer", user |-> NoUser]

\* a guard that also turns away the holder of a token while some client is
\* locked out of login
get_current_user_locked(credentials, db, t) ==
  IF ~credentials.present THEN Unauthenticated
  ELSE LET payload == jwt_decode(credentials.token, SECRET_KEY, t) IN
    IF ~payload.ok THEN credentials_exception
    ELSE IF payload.sub = NoSub THEN credentials_exception
    ELSE IF \E c \in Clients : is_ip_blocked(failed_attempts, c, t)
      THEN credentials_exception
    ELSE LET user == get_user(db, payload.sub) IN
      IF user = NoUser THEN credentials_exception
      ELSE [status |-> 200, detail |-> "", headers |-> "", user |-> user]

\* get_current_user answering every rejection like a missing header
get_current_user_forbidden(credentials, db, t) ==
  IF ~credentials.present THEN Unauthenticated
  ELSE LET payload == jwt_decode(credentials.token, SECRET_KEY, t) IN
    IF ~payload.ok THEN Unauthenticated
    ELSE IF payload.sub = NoSub THEN Unauthenticated
    ELSE LET user == get_user(db, payload.sub) IN
      IF user = NoUser THEN Unauthenticated
      ELSE [status |-> 200, detail |-> "", headers |-> "", user |-> user]

\* get_current_user answering 200 with no identity for an unknown subject
get_current_user_lax(credentials, db, t) ==
  IF ~credentials.present THEN Unauthenticated
  ELSE LET payload == jwt_decode(credentials.token, SECRET_KEY, t) IN
    IF ~payload.ok THEN credentials_exception
    ELSE IF payload.sub = NoSub THEN credentials_exception
    ELSE [status |-> 200, detail |-> "", headers |-> "",
          user |-> get_user(db, payload.sub)]

get_current_user(credentials, db, t) ==
  IF ~credentials.present THEN Unauthenticated
  ELSE LET payload == jwt_decode(credentials.token, SECRET_KEY, t) IN
    IF ~payload.ok THEN credentials_exception
    ELSE IF payload.sub = NoSub THEN credentials_exception
    ELSE LET user == get_user(db, payload.sub) IN
      IF user = NoUser THEN credentials_exception
      ELSE [status |-> 200, detail |-> "", headers |-> "", user |-> user]

\* the answer of a request the guard turned away
Rejected(op, client, credentials, guard) ==
  [Response(op, client, guard.status, guard.detail)
     EXCEPT !.headers = guard.headers, !.cred = credentials]

\* ------------------------------------------------------------ GET /auth/me
\* main.py: the endpoint decodes the token itself
get_current_user_info(credentials) ==
  /\ IF ~credentials.present
       THEN resp' = Rejected("me", "", credentials, Unauthenticated)
     ELSE LET payload == jwt_decode(credentials.token, SECRET_KEY, now)
              answer(status, detail) ==
                [Response("me", "", status, detail)
                   EXCEPT !.cred = credentials, !.body = TRUE]
          IN IF ~payload.ok
               THEN resp' = answer(401, "Could not validate credentials")
             ELSE IF payload.sub = NoSub
               THEN resp' = answer(401, "Cound not validate credentials")
             ELSE LET user == get_user(users, payload.sub) IN
               IF user = NoUser
                 THEN resp' = answer(404, "User not found")
                 ELSE resp' = [answer(200, "") EXCEPT !.user = UserOut(user)]
  /\ UNCHANGED <<now, users, todos, failed_attempts, rate, recorded, accepted,
               inflight>>

\* cloud/src/api/v1/endpoints/auth.py: the endpoint depends on the guard
get_current_user_info_cloud(credentials) ==
  /\ LET guard == get_current_user(credentials, users, now) IN
       IF guard.status # 200
         THEN resp' = Rejected("me_cloud", "", credentials, guard)
         ELSE resp' = [Response("me_cloud", "", 200, "")
                         EXCEPT !.cred = credentials, !.body = TRUE,
                                !.user = UserOut(guard.user)]
  /\ UNCHANGED <<now, users, todos, failed_attempts, rate, recorded, accepted,
               inflight>>

\* ----------------------------------------------------- create_access_token
\* a direct call of the token service
issue(sub, expires_delta) ==
  /\ resp' = [Response("issue", "", 200, "")
                EXCEPT !.token = create_access_token(sub, expires_delta, now),
                       !.sub = sub, !.ttl = expires_delta]
  /\ UNCHANGED <<now, users, todos, failed_attempts, rate, recorded, accepted,
               inflight>>

\* ------------------------------------------------------------ todo routes
\* A row of table "todos" (the deadline column plays no part here).
Titles == {"t1", "t2"}
NoTitle == ""

OwnTodos(tds, user_id) == {r \in tds : r.owner_id = user_id}

\* crud.get_todo without the owner filter
crud_get_todo_any_owner(tds, todo_id, user_id) ==
  {r \in tds : r.id = todo_id}

\* crud.get_todo: filter(TodoDB.id == todo_id, TodoDB.owner_id == user_id)
crud_get_todo(tds, todo_id, user_id) ==
  {r \in tds : r.id = todo_id /\ r.owner_id = user_id}

\* INTEGER PRIMARY KEY: one more than the largest id in the table
NextTodoId(tds) ==
  IF tds = {} THEN 1
  ELSE 1 + CHOOSE m \in {r.id : r \in tds} : \A r \in tds : r.id <= m

\* the limiter check of a decorated route; it runs when the route function
\* is called, after the dependencies have been resolved
Limited(op, client, credentials) ==
  [Response(op, client, 429, "Rate limit exceeded") EXCEPT !.cred = credentials]

\* the answer of a route whose body ran; the 404 of the handler of
\* TodoNotFoundException, "Todo with id <id> not found", is written
\* "Todo not found"
Done(op, client, credentials, status, detail) ==
  [Response(op, client, status, detail) EXCEPT !.cred = credentials, !.body = TRUE]

\* POST /todos, @limiter.limit("20/minute")
create_todo(client, credentials, title) ==
  LET guard == get_current_user(credentials, users, now)
      key == <<client, "create_todo">>
  IN
  /\ IF guard.status # 200
       THEN /\ resp' = Rejected("create_todo", client, credentials, guard)
            /\ UNCHANGED <<rate, todos, accepted>>
       ELSE /\ HitFits(rate, key, now)
            /\ rate' = limiter_incr(rate, key, now)
            /\ IF ~limiter_allows(rate, key, now)
                 THEN /\ resp' = Limited("create_todo", client, credentials)
                      /\ UNCHANGED <<todos, accepted>>
                 ELSE /\ Cardinality(todos) < MaxTodos
                      /\ accepted' = note_accepted(accepted, key, now)
                      /\ todos' = todos \cup
                           {[id |-> NextTodoId(todos), title |-> title,
                             done |-> FALSE, owner_id |-> guard.user.id]}
                      /\ resp' = Done("create_todo", client, credentials, 201, "")
  /\ UNCHANGED <<now, users, failed_attempts, recorded, inflight>>

\* GET /todos, @limiter.limit("100/minute"), called with the default query
\* parameters (no title, no date filter, first page)
list_todos(client, credentials) ==
  LET guard == get_current_user(credentials, users, now)
      key == <<client, "list_todos">>
  IN
  /\ IF guard.status # 200
       THEN /\ resp' = Rejected("list_todos", client, credentials, guard)
            /\ UNCHANGED <<rate, accepted>>
       ELSE /\ HitFits(rate, key, now)
            /\ rate' = limiter_incr(rate, key, now)
            /\ IF ~limiter_allows(rate, key, now)
                 THEN /\ resp' = Limited("list_todos", client, credentials)
                      /\ UNCHANGED accepted
                 ELSE /\ accepted' = note_accepted(accepted, key, now)
                      /\ resp' = [Done("list_todos", client, credentials, 200, "")
                                    EXCEPT !.count =
                                      Cardinality(OwnTodos(todos, guard.user.id)),
                                           !.items =
                                      {r.id : r \in OwnTodos(todos, guard.user.id)}]
  /\ UNCHANGED <<now, users, todos, failed_attempts, recorded, inflight>>

\* GET /todos/{id}
get_todo(client, credentials, id) ==
  LET guard == get_current_user(credentials, users, now) IN
  /\ IF guard.status # 200
       THEN resp' = Rejected("get_todo", client, credentials, guard)
     ELSE IF crud_get_todo(todos, id, guard.user.id) = {}
       THEN resp' = Done("get_todo", client, credentials, 404, "Todo not found")
       ELSE resp' = Done("get_todo", client, credentials, 200, "")
  /\ UNCHANGED <<now, users, todos, failed_attempts, rate, recorded, accepted,
               inflight>>

\* PUT /todos/{id}; update = [title, done], NoTitle and {} standing for None
update_todo(client, credentials, id, update) ==
  LET guard == get_current_user(credentials, users, now) IN
  /\ IF guard.status # 200
       THEN /\ resp' = Rejected("update_todo", client, credentials, guard)
            /\ UNCHANGED todos
     ELSE IF crud_get_todo(todos, id, guard.user.id) = {}
       THEN /\ resp' = Done("update_todo", client, credentials, 404, "Todo not found")
            /\ UNCHANGED todos
       ELSE /\ todos' =
                 {IF r.id = id /\ r.owner_id = guard.user.id
                    THEN [r EXCEPT
                            !.title = IF update.title # NoTitle THEN update.title ELSE @,
                            !.done = IF update.done # {}
                                       THEN CHOOSE b \in update.done : TRUE ELSE @]
                    ELSE r : r \in todos}
            /\ resp' = Done("update_todo", client, credentials, 200, "")
  /\ UNCHANGED <<now, users, failed_attempts, rate, recorded, accepted, inflight>>

\* DELETE /todos/{id}
delete_todo(client, credentials, id) ==
  LET guard == get_current_user(credentials, users, now) IN
  /\ IF guard.status # 200
       THEN /\ resp' = Rejected("delete_todo", client, credentials, guard)
            /\ UNCHANGED todos
     ELSE IF crud_get_todo(todos, id, guard.user.id) = {}
       THEN /\ resp' = Done("delete_todo", client, credentials, 404, "Todo not found")
            /\ UNCHANGED todos
       ELSE /\ todos' = todos \ crud_get_todo(todos, id, guard.user.id)
            /\ resp' = Done("delete_todo", client, credentials, 204, "")
  /\ UNCHANGED <<now, users, failed_attempts, rate, recorded, accepted, inflight>>

\* ------------------------------------------------------------------ inputs
\* Authorization headers a client may send at time t: none; a token that is
\* no JWT; a token signed with another key; tokens create_access_token can
\* have produced (live or expired, for a stored or an unknown subject or
\* without subject); and the token the latest response handed out.
CredInputs(t) ==
  {NoCred, Bearer(NoToken), Bearer(jwt_encode("a@x.com", t + 1, OtherKey)),
   Bearer(jwt_encode("a@x.com", t + 1, SECRET_KEY)),
   Bearer(jwt_encode("a@x.com", t - 1, SECRET_KEY)),
   Bearer(jwt_encode("b@x.com", t + 1, SECRET_KEY)),
   Bearer(jwt_encode(NoSub, t + 1, SECRET_KEY))}
  \cup (IF resp.token # NoToken THEN {Bearer(resp.token)} ELSE {})

\* ------------------------------------------------------------ specifications
\* Spec: one client address, every credential, a clock that passes through
\* the ages 5, 10 and 15 minutes.
Tick == TickBy(Steps)
Register == \E p \in Passwords, s \in Salts : register("a@x.com", p, s)
Login == \E e \in Emails, p \in Passwords : login("ip1", e, p)

Issue == \E sub \in Emails \cup {NoSub}, ttl \in TTLs : issue(sub, ttl)
Me == \E cr \in CredInputs(now) : get_current_user_info(cr)
MeCloud == \E cr \in CredInputs(now) : get_current_user_info_cloud(cr)

Next == Tick \/ Register \/ Login \/ Issue \/ Me \/ MeCloud

Spec == Init /\ [][Next]_vars

\* SpecClients: two client addresses that log in side by side; the clock
\* jumps a whole lockout window at a time.
TickWindow == TickBy({Minutes(BLOCK_DURATION)})
RegisterOne == register("a@x.com", Secret1, 1)
LoginAny == \E c \in Clients, e \in Emails, p \in Passwords : login(c, e, p)

NextClients == TickWindow \/ RegisterOne \/ LoginAny

SpecClients == Init /\ [][NextClients]_vars

\* SpecTodos: the protected routes, called by one client address with no
\* header, a forged token, an expired token and live tokens of a subject
\* that may be registered and of one that never is.
TodoCreds(t) ==
  {NoCred, Bearer(jwt_encode("a@x.com", t + 1, OtherKey)),
   Bearer(jwt_encode("a@x.com", t - 1, SECRET_KEY)),
   Bearer(jwt_encode("a@x.com", t + 1, SECRET_KEY)),
   Bearer(jwt_encode("b@x.com", t + 1, SECRET_KEY))}

TodoIds == {1, 2}
MeTodos == \E cr \in TodoCreds(now) : get_current_user_info(cr)
MeCloudTodos == \E cr \in TodoCreds(now) : get_current_user_info_cloud(cr)
CreateTodo == \E cr \in TodoCreds(now), t \in Titles : create_todo("ip1", cr, t)
ListTodos == \E cr \in TodoCreds(now) : list_todos("ip1", cr)
GetTodo == \E cr \in TodoCreds(now), id \in TodoIds : get_todo("ip1", cr, id)
TodoUpdates == {[title |-> NoTitle, done |-> {TRUE}], [title |-> "t2", done |-> {}]}
UpdateTodo ==
  \E cr \in TodoCreds(now), id \in TodoIds, u \in TodoUpdates :
    update_todo("ip1", cr, id, u)
DeleteTodo == \E cr \in TodoCreds(now), id \in TodoIds : delete_todo("ip1", cr, id)

NextTodos ==
  \/ TickWindow \/ RegisterOne \/ MeTodos \/ MeCloudTodos
  \/ CreateTodo \/ ListTodos \/ GetTodo \/ UpdateTodo \/ DeleteTodo

SpecTodos == Init /\ [][NextTodos]_vars

\* SpecOwners: two registered identities work on the todo table with live
\* tokens of their own.
OwnerCreds(t) ==
  {Bearer(jwt_encode("a@x.com", t + 1, SECRET_KEY)),
   Bearer(jwt_encode("b@x.com", t + 1, SECRET_KEY))}
RegisterOwner == \E e \in Emails : register(e, Secret1, 1)
CreateOwner == \E cr \in OwnerCreds(now), t \in Titles : create_todo("ip1", cr, t)
ListOwner == \E cr \in OwnerCreds(now) : list_todos("ip1", cr)
GetOwner == \E cr \in OwnerCreds(now), id \in TodoIds : get_todo("ip1", cr, id)
UpdateOwner ==
  \E cr \in OwnerCreds(now), id \in TodoIds, u \in TodoUpdates :
    update_todo("ip1", cr, id, u)
DeleteOwner == \E cr \in OwnerCreds(now), id \in TodoIds : delete_todo("ip1", cr, id)

NextOwners ==
  \/ TickWindow \/ RegisterOwner
  \/ CreateOwner \/ ListOwner \/ GetOwner \/ UpdateOwner \/ DeleteOwner

SpecOwners == Init /\ [][NextOwners]_vars

\* SpecAccounts: one client address registers and logs in with emails that
\* differ in letter case only and with passwords longer than bcrypt reads.
LongPassword(last) == [i \in 1..BCRYPT_MAX_BYTES |-> "a"] \o <<last>>
AccountEmails == {"a@x.com", "A@x.com"}
AccountPasswords == {Secret1, LongPassword("b"), LongPassword("c")}
RegisterAccount ==
  \E e \in AccountEmails, p \in AccountPasswords : register(e, p, 1)
LoginAccount ==
  \E e \in AccountEmails, p \in AccountPasswords : login("ip1", e, p)

NextAccounts == TickWindow \/ RegisterAccount \/ LoginAccount

SpecAccounts == Init /\ [][NextAccounts]_vars

\* SpecRace: login requests run in worker threads (login is a plain def
\* route), so the statements of two requests interleave.  inflight maps a
\* request in progress to [pc, client_ip, email, password, recent, good];
\* recent is the local recent_attempts of is_ip_blocked, good tells whether
\* the credentials verified when the request last looked (authenticate_user
\* runs after the write-back).
Requests == 1..MaxInflight

LoginResult(rq, status, detail) ==
  [Response("login", rq.client_ip, status, detail)
     EXCEPT !.sub = rq.email, !.password = rq.password,
            !.good = rq.good]

\* @limiter.limit("5/minute"), then the body starts
login_enter(r, client_ip, email, password) ==
  LET key == <<client_ip, "login">>
      rq == [pc |-> "read", client_ip |-> client_ip, email |-> email,
             password |-> password, recent |-> <<>>,
             good |-> authenticate_user(users, email, password) # NoUser]
  IN
  /\ r \notin DOMAIN inflight
  /\ HitFits(rate, key, now)
  /\ rate' = limiter_incr(rate, key, now)
  /\ IF ~limiter_allows(rate, key, now)
       THEN /\ resp' = LoginResult(rq, 429, "Rate limit exceeded")
            /\ UNCHANGED <<accepted, inflight>>
       ELSE /\ accepted' = note_accepted(accepted, key, now)
            /\ inflight' = DictSet(inflight, r, rq)
            /\ UNCHANGED resp
  /\ UNCHANGED <<now, users, todos, failed_attempts, recorded>>

\* is_ip_blocked, lines 34-38: read the stored list and filter it into the
\* local recent_attempts
is_ip_blocked_read(r) ==
  /\ r \in DOMAIN inflight /\ inflight[r].pc = "read"
  /\ inflight' = [inflight EXCEPT
                    ![r].recent =
                      SelectRecent(attempts_of(failed_attempts,
                                               inflight[r].client_ip), now),
                    ![r].pc = "write"]
  /\ UNCHANGED <<now, users, todos, failed_attempts, rate, recorded, accepted, resp>>

\* is_ip_blocked, lines 39-41: failed_attempts[client_ip] = recent_attempts
\* and the comparison; then login's 429 or authenticate_user
is_ip_blocked_write(r) ==
  /\ r \in DOMAIN inflight /\ inflight[r].pc = "write"
  /\ LET good == authenticate_user(users, inflight[r].email,
                                    inflight[r].password) # NoUser
         rq == [inflight[r] EXCEPT !.good = good]
     IN
     /\ failed_attempts' = DictSet(failed_attempts, rq.client_ip, rq.recent)
     /\ IF Len(rq.recent) >= MAX_FAILED_ATTEMPTS
          THEN /\ resp' = [LoginResult(rq, 429, "Too many failed attempts")
                             EXCEPT !.body = TRUE]
               /\ inflight' = DictDel(inflight, r)
          ELSE /\ inflight' = [inflight EXCEPT
                                ![r] = [rq EXCEPT !.pc = IF good THEN "clear"
                                                         ELSE "record"]]
               /\ UNCHANGED resp
  /\ UNCHANGED <<now, users, todos, rate, recorded, accepted>>

\* login, lines 474-480: record_failed_attempt and the 401
login_record(r) ==
  /\ r \in DOMAIN inflight /\ inflight[r].pc = "record"
  /\ LET rq == inflight[r] IN
     /\ failed_attempts' = record_failed_attempt(failed_attempts, rq.client_ip, now)
     /\ recorded' = [recorded EXCEPT ![rq.client_ip] = Append(@, now)]
     /\ resp' = [LoginResult(rq, 401, "Incorrect email or password")
                   EXCEPT !.body = TRUE, !.headers = "WWW-Authenticate: Bearer"]
  /\ inflight' = DictDel(inflight, r)
  /\ UNCHANGED <<now, users, todos, rate, accepted>>

\* the 200 answer of login, lines 485-490
LoginToken(rq) ==
  [LoginResult(rq, 200, "")
     EXCEPT !.body = TRUE,
            !.token = create_access_token(rq.email,
                        Minutes(ACCESS_TOKEN_EXPIRE_MINUTES), now)]

\* login, line 482: if client_ip in failed_attempts
login_clear_test(r) ==
  /\ r \in DOMAIN inflight /\ inflight[r].pc = "clear"
  /\ LET rq == inflight[r] IN
     IF rq.client_ip \in DOMAIN failed_attempts
       THEN /\ inflight' = [inflight EXCEPT ![r].pc = "del"]
            /\ UNCHANGED <<recorded, resp>>
       ELSE /\ inflight' = DictDel(inflight, r)
            /\ recorded' = [recorded EXCEPT ![rq.client_ip] = <<>>]
            /\ resp' = LoginToken(rq)
  /\ UNCHANGED <<now, users, todos, failed_attempts, rate, accepted>>

\* login, line 483: del failed_attempts[client_ip]; a key another request
\* has deleted meanwhile raises KeyError, which is answered 500
login_clear_del(r) ==
  /\ r \in DOMAIN inflight /\ inflight[r].pc = "del"
  /\ LET rq == inflight[r] IN
     IF rq.client_ip \in DOMAIN failed_attempts
       THEN /\ failed_attempts' = DictDel(failed_attempts, rq.client_ip)
            /\ recorded' = [recorded EXCEPT ![rq.client_ip] = <<>>]
            /\ resp' = LoginToken(rq)
       ELSE /\ resp' = LoginResult(rq, 500, "Internal Server Error")
            /\ UNCHANGED <<failed_attempts, recorded>>
  /\ inflight' = DictDel(inflight, r)
  /\ UNCHANGED <<now, users, todos, rate, accepted>>

LoginEnter ==
  \E r \in Requests, c \in Clients, p \in Passwords :
    /\ LiveCount(rate, <<c, "login">>, now) < MaxRaceHits
    /\ login_enter(r, c, "a@x.com", p)
BlockedRead == \E r \in Requests : is_ip_blocked_read(r)
BlockedWrite == \E r \in Requests : is_ip_blocked_write(r)
LoginRecord == \E r \in Requests : login_record(r)
LoginClearTest == \E r \in Requests : login_clear_test(r)
LoginClearDel == \E r \in Requests : login_clear_del(r)

NextRace ==
  \/ TickWindow \/ RegisterOne \/ LoginEnter \/ BlockedRead \/ BlockedWrite
  \/ LoginRecord \/ LoginClearTest \/ LoginClearDel

SpecRace == Init /\ [][NextRace]_vars

\* SpecWindow: one client logs in while the clock advances by single ticks
\* at the start, and later moves to the last tick before the block duration
\* is over and to the tick at which it is over.
LateTimes == {Minutes(BLOCK_DURATION) - 1, Minutes(BLOCK_DURATION)}
TickFine == now < MaxFineTime /\ TickBy({1})
TickLate == TickBy({t - now : t \in {u \in LateTimes : u > now}})
LoginOne == \E p \in Passwords : login("ip1", "a@x.com", p)

NextWindow == TickFine \/ TickLate \/ RegisterOne \/ LoginOne

SpecWindow == Init /\ [][NextWindow]_vars

\* SpecRoutes: inside one limiter window two clients use the limited routes,
\* login and the todo routes, with the password and a live token of the
\* registered identity.
RouteCreds(t) == {Bearer(jwt_encode("a@x.com", t + 1, SECRET_KEY))}
LoginRoutes == \E c \in Clients : login(c, "a@x.com", Secret1)
CreateRoutes == \E c \in Clients, cr \in RouteCreds(now) : create_todo(c, cr, "t1")
ListRoutes == \E c \in Clients, cr \in RouteCreds(now) : list_todos(c, cr)

NextRoutes ==
  \/ RegisterOne
  \/ LoginRoutes \/ CreateRoutes \/ ListRoutes

SpecRoutes == Init /\ [][NextRoutes]_vars

\* SpecStored: the users table holds one identity from the start, with a
\* hash made by get_password_hash or with a string that is no hash; one
\* client logs in to it.
StoredHashes == {get_password_hash(Secret1, 1), MalformedHash}
InitStored ==
  /\ now = 0
  /\ \E h \in StoredHashes :
       users = DictSet(<< >>, "a@x.com",
                       [id |-> 1, email |-> "a@x.com", hashed_password |-> h])
  /\ todos = {}
  /\ failed_attempts = << >>
  /\ rate = << >>
  /\ recorded = [c \in Clients |-> <<>>]
  /\ accepted = << >>
  /\ inflight = << >>
  /\ resp = NoResponse

NextStored == TickWindow \/ LoginOne

SpecStored == InitStored /\ [][NextStored]_vars

\* SpecRegister: register requests run in worker threads too.  A request in
\* progress is [pc, email, password]; it has read the users table and found
\* no row for its email, and has its INSERT still to commit.
\* register, lines 453-455: get_user and the 400
register_check(r, email, password) ==
  /\ r \notin DOMAIN inflight
  /\ IF get_user(users, email) # NoUser
       THEN /\ resp' = [Response("register", "", 400, "Email has been registered")
                          EXCEPT !.body = TRUE, !.sub = email,
                                 !.password = password]
            /\ UNCHANGED inflight
       ELSE /\ inflight' = DictSet(inflight, r, [pc |-> "commit", email |-> email,
                                                 password |-> password])
            /\ UNCHANGED resp
  /\ UNCHANGED <<now, users, todos, failed_attempts, rate, recorded, accepted>>

\* register, lines 457-462: add and commit; the unique column email makes
\* the commit of a second row raise IntegrityError, which is answered 500
register_commit(r, salt) ==
  /\ r \in DOMAIN inflight /\ inflight[r].pc = "commit"
  /\ LET rq == inflight[r]
         db_user == [id |-> Cardinality(DOMAIN users) + 1, email |-> rq.email,
                     hashed_password |-> get_password_hash(rq.password, salt)]
     IN
     IF rq.email \in DOMAIN users
       THEN /\ resp' = [Response("register", "", 500, "Internal Server Error")
                          EXCEPT !.body = TRUE, !.sub = rq.email,
                                 !.password = rq.password]
            /\ UNCHANGED users
       ELSE /\ users' = DictSet(users, rq.email, db_user)
            /\ resp' = [Response("register", "", 200, "")
                          EXCEPT !.body = TRUE, !.sub = rq.email,
                                 !.password = rq.password,
                                 !.user = UserOut(db_user)]
  /\ inflight' = DictDel(inflight, r)
  /\ UNCHANGED <<now, todos, failed_attempts, rate, recorded, accepted>>

RegisterCheck ==
  \E r \in Requests, e \in Emails, p \in Passwords : register_check(r, e, p)
RegisterCommit == \E r \in Requests, s \in Salts : register_commit(r, s)

NextRegister == RegisterCheck \/ RegisterCommit

SpecRegister == Init /\ [][NextRegister]_vars

\* ======================================================== properties: login
\* number of entries of a history that are less than 15 minutes old at t
YoungCount(h, t) == Cardinality({i \in DOMAIN h : t - h[i] < Minutes(15)})

\* the step is a login request of client c (only a login stores a login
\* response, and every login changes the client's limiter counter)
LoginStep(c) == resp'.op = "login" /\ resp'.client = c

\* C1 (as stated): once a client has five failed logins inside 15 minutes,
\* its next login attempt inside those 15 minutes is answered 429 "Too many
\* failed attempts" and gets no token.
C1_Original ==
  [][\A c \in Clients :
       (LoginStep(c) /\ YoungCount(recorded[c], now) >= 5)
         => /\ resp'.status = 429
            /\ resp'.detail = "Too many failed attempts"
            /\ resp'.token = NoToken]_vars

\* C1 (amended): once a client has five logins answered 401 inside 15
\* minutes and no successful login since, its next login attempt inside
\* those 15 minutes is answered 429 and gets no token, whatever password it
\* carries: "Too many failed attempts" when the rate limiter lets it
\* through, the rate limiter's own 429 otherwise; never 401.
C1_LockedOutOrLimited ==
  [][\A c \in Clients :
       (LoginStep(c) /\ YoungCount(recorded[c], now) >= 5)
         => /\ resp'.status = 429
            /\ resp'.token = NoToken
            /\ resp'.detail = IF LiveCount(rate, <<c, "login">>, now) < 5
                                THEN "Too many failed attempts"
                                ELSE "Rate limit exceeded"]_vars

\* a login with the right password was answered "Too many failed attempts"
C1_Witness ==
  /\ resp.op = "login" /\ resp.good
  /\ resp.detail = "Too many failed attempts"
  /\ YoungCount(recorded[resp.client], now) >= 5

\* C2: is_locked_out(C) is true exactly when at least 5 of the failures
\* recorded for C and not cleared since are less than 15 minutes old.
C2_LockedIffFiveYoung ==
  \A c \in Clients :
    is_ip_blocked(failed_attempts, c, now) <=> YoungCount(recorded[c], now) >= 5

\* a client whose 5 failures, made at two different instants, are all less
\* than 15 minutes old was just found locked out
C2_Witness ==
  /\ resp.op = "login" /\ resp.detail = "Too many failed attempts"
  /\ YoungCount(recorded[resp.client], now) = 5
  /\ recorded[resp.client][1] = 0
  /\ recorded[resp.client][5] = Minutes(5)
  /\ now = Minutes(10)

\* C3: within one window the limiter lets the first 5 login requests of a
\* client through and rejects the next with 429; once the window is over
\* the count starts again.
C3_FixedWindow ==
  [][/\ \A c \in Clients :
          LoginStep(c) =>
            LET n == IF <<c, "login">> \in DOMAIN rate
                       THEN rate[<<c, "login">>].count ELSE 0
            IN /\ <<c, "login">> \in DOMAIN rate'
               /\ rate'[<<c, "login">>].count = n + 1
               /\ (n < 5 => resp'.detail # "Rate limit exceeded")
               /\ (n >= 5 => resp'.status = 429 /\ resp'.detail = "Rate limit exceeded"
                             /\ ~resp'.body)
     /\ (now' >= now + Minutes(1) => rate' = << >>)]_vars

\* the sixth login request of a window was rejected by the limiter
C3_Witness ==
  /\ resp.op = "login" /\ resp.detail = "Rate limit exceeded"
  /\ rate[<<resp.client, "login">>].count = 6

\* C8: a login that passes the limiter and the lockout check with
\* credentials that do not verify is answered 401 without a token and
\* appends one timestamp to the client's list; other clients' lists stay.
C8_FailureRecorded ==
  [][\A c \in Clients :
       (/\ LoginStep(c)
        /\ LiveCount(rate, <<c, "login">>, now) < 5
        /\ YoungCount(attempts_of(failed_attempts, c), now) < 5
        /\ ~resp'.good)
         => /\ resp'.status = 401
            /\ resp'.token = NoToken
            /\ c \in DOMAIN failed_attempts'
            /\ failed_attempts'[c] =
                 Append(StillYoung(attempts_of(failed_attempts, c), now), now)
            /\ recorded'[c] = Append(recorded[c], now)
            /\ \A d \in Clients \ {c} :
                 /\ (d \in DOMAIN failed_attempts') = (d \in DOMAIN failed_attempts)
                 /\ attempts_of(failed_attempts', d) = attempts_of(failed_attempts, d)]_vars

\* a failed login was recorded while the other client has a history too
C8_Witness ==
  \E c, d \in Clients :
    /\ c # d
    /\ resp.op = "login" /\ resp.client = c /\ resp.status = 401
    /\ Len(failed_attempts[c]) >= 2
    /\ d \in DOMAIN failed_attempts /\ Len(failed_attempts[d]) >= 1

\* C9: a successful login deletes the client's failure list, so the client
\* is not locked out afterwards and earlier failures no longer count.
C9_SuccessClears ==
  [][\A c \in Clients :
       (LoginStep(c) /\ resp'.status = 200)
         => /\ c \notin DOMAIN failed_attempts'
            /\ ~is_ip_blocked(failed_attempts', c, now')
            /\ recorded'[c] = <<>>]_vars
  /\ [](\A c \in Clients :
          YoungCount(attempts_of(failed_attempts, c), now)
            <= YoungCount(recorded[c], now))

\* a successful login has just dropped four recorded failures
C9_Witness ==
  /\ resp.op = "login" /\ resp.status = 200
  /\ resp.dropped = 4
  /\ resp.client \notin DOMAIN failed_attempts

\* ================================================= properties: tokens, guard
\* C4: a token issued for subject E, by create_access_token with a
\* non-negative ttl or by a successful login of E, validates at the instant
\* of issuance and resolves to E, and the current-user operation answers it
\* with the identity stored under E.
C4_IssuedTokenResolves ==
  /\ [](/\ resp.op \in {"issue", "login"}
        /\ resp.status = 200
        /\ resp.sub # NoSub
        => /\ jwt_decode(resp.token, SECRET_KEY, now).ok
           /\ jwt_decode(resp.token, SECRET_KEY, now).sub = resp.sub
           /\ (resp.sub \in DOMAIN users =>
                 /\ get_current_user(Bearer(resp.token), users, now).status = 200
                 /\ get_current_user(Bearer(resp.token), users, now).user
                      = users[resp.sub]))
  /\ [][(/\ resp'.op \in {"me", "me_cloud"}
         /\ resp.op \in {"issue", "login"}
         /\ resp.status = 200
         /\ resp'.cred = Bearer(resp.token)
         /\ resp.sub \in DOMAIN users)
        => /\ resp'.status = 200
           /\ resp'.user = UserOut(users[resp.sub])]_vars

\* the token a login handed out 60 minutes of life was presented to a
\* current-user endpoint and answered with the identity
C4_Witness ==
  /\ resp.op \in {"me", "me_cloud"}
  /\ resp.status = 200
  /\ resp.cred.token.exp = now + Minutes(ACCESS_TOKEN_EXPIRE_MINUTES)
  /\ resp.user.email = resp.cred.token.sub

\* C5: for every ttl, zero included, a token issued at t carries the expiry
\* t + ttl and no longer validates at any later time.
C5_ExpiryIsIssueTimePlusTtl ==
  (resp.op = "issue" /\ resp.ttl >= 0)
    => /\ resp.token.exp = now + resp.ttl
       /\ \A later \in (now + resp.ttl + 1)..(now + resp.ttl + 2) :
            ~jwt_decode(resp.token, SECRET_KEY, later).ok

\* C7: registering an email that is already stored answers 400 "Email has
\* been registered" and leaves the table as it was; an email not yet stored
\* is added and nothing else changes.
C7_RegisterOncePerEmail ==
  [][resp'.op = "register" =>
       IF resp'.sub \in DOMAIN users
         THEN /\ resp'.status = 400
              /\ resp'.detail = "Email has been registered"
              /\ users' = users
         ELSE /\ resp'.status = 200
              /\ DOMAIN users' = DOMAIN users \cup {resp'.sub}
              /\ \A e \in DOMAIN users : users'[e] = users[e]]_vars

\* a second registration of the email, with another password, was refused
C7_Witness ==
  /\ resp.op = "register" /\ resp.status = 400
  /\ ~resp.good
  /\ resp.sub \in DOMAIN users

\* the reading of "the token validates": signed with the service's
\* key and not past its expiry
Validates(cr, t) ==
  /\ cr.present
  /\ cr.token.mac = <<SECRET_KEY, cr.token.sub, cr.token.exp>>
  /\ cr.token.exp >= t

\* C10: a token that validates but names a subject that is not stored is
\* answered 401 by the guard and by every current-user endpoint.
C10_UnknownSubjectUnauthorized ==
  (/\ resp.op \in {"me", "me_cloud"}
   /\ Validates(resp.cred, now)
   /\ resp.cred.token.sub # NoSub
   /\ resp.cred.token.sub \notin DOMAIN users)
    => resp.status = 401

\* the routes that require an identity
ProtectedOps ==
  {"create_todo", "list_todos", "get_todo", "update_todo", "delete_todo",
   "me", "me_cloud"}

\* the reading of "a token that validates and whose subject is a
\* stored identity"
Identified(cr, t, db) ==
  Validates(cr, t) /\ cr.token.sub \in DOMAIN db

\* C6 (as stated): the body of a protected route runs only for a request
\* whose token validates and names a stored identity.
C6_Original ==
  (resp.op \in ProtectedOps /\ resp.body) => Identified(resp.cred, now, users)

\* C6 (amended): a request to a protected route whose token does not
\* validate or names no stored identity is rejected (401, 403, or 404 from
\* the current-user endpoint of main.py), gets no identity and no rows back,
\* and leaves the todo table untouched; the guard turns it away before the
\* route body runs everywhere but in the current-user endpoint of main.py,
\* which makes the same checks inside its body.
C6_NothingWithoutIdentity ==
  /\ []((resp.op \in ProtectedOps /\ ~Identified(resp.cred, now, users))
         => /\ resp.status \in {401, 403, 404}
            /\ (resp.status = 404 => resp.op = "me")
            /\ resp.user = UserOut(NoUser)
            /\ resp.count = 0
            /\ (resp.op # "me" => ~resp.body))
  /\ [][(resp'.op \in ProtectedOps /\ ~Identified(resp'.cred, now, users))
         => todos' = todos]_vars

\* a create request with a live token of an unknown subject was turned away
\* while the table holds a row
C6_Witness ==
  /\ resp.op = "create_todo"
  /\ resp.status = 401
  /\ ~resp.body
  /\ Validates(resp.cred, now)
  /\ todos # {}

\* ============================================== properties: failure reports
\* the token of a request fails validation: bad signature or garbage,
\* expired, or no subject in the payload
TokenFailure(cr, t) ==
  /\ cr.present
  /\ (~Validates(cr, t) \/ cr.token.sub = NoSub)

\* C11: two requests to the same protected endpoint whose tokens fail
\* validation, for whichever reason, get the same status, detail text and
\* headers.
C11_FailuresIndistinguishable ==
  [][(/\ resp.op \in ProtectedOps
      /\ resp'.op = resp.op
      /\ TokenFailure(resp.cred, now)
      /\ TokenFailure(resp'.cred, now'))
       => <<resp'.status, resp'.detail, resp'.headers>>
            = <<resp.status, resp.detail, resp.headers>>]_vars

\* the routes that depend on the guard get_current_user
GuardedOps == ProtectedOps \ {"me"}

\* C12 (as stated): every request the guard rejects is answered 401, every
\* lockout or rate-limit rejection 429, every registration conflict 400.
C12_Original ==
  /\ ((resp.op \in GuardedOps /\ ~Identified(resp.cred, now, users))
        => resp.status = 401)
  /\ (resp.detail \in {"Too many failed attempts", "Rate limit exceeded"}
        => resp.status = 429)
  /\ (resp.detail = "Email has been registered" => resp.status = 400)

\* C12 (amended): a request the guard rejects is answered 401 when it
\* carries a bearer token (garbage, wrongly signed, expired, without or with
\* an unknown subject) and 403 when it carries none; a login of a client
\* that is over the limit or locked out is answered 429; a registration of
\* a stored email is answered 400.
C12_StatusMapping ==
  /\ []((resp.op \in GuardedOps /\ ~Identified(resp.cred, now, users))
          => /\ resp.status = (IF resp.cred.present THEN 401 ELSE 403)
             /\ ~resp.body)
  /\ [][/\ \A c \in Clients :
             ((/\ LoginStep(c)
               /\ \/ LiveCount(rate, <<c, "login">>, now) >= 5
                  \/ YoungCount(recorded[c], now) >= 5)
                => resp'.status = 429)
         /\ ((resp'.op = "register" /\ resp'.sub \in DOMAIN users)
                => resp'.status = 400)]_vars

\* the guard has turned away a request without Authorization header, and
\* the table holds an identity
C12_Witness ==
  /\ resp.op = "me_cloud"
  /\ ~resp.cred.present
  /\ resp.status = 403
  /\ users # << >>

\* ================================================== properties: identities
\* letter case folded away, on the emails of the model
Lower(email) == IF email = "A@x.com" THEN "a@x.com" ELSE email

\* C13: no two stored identities have emails that are equal up to letter
\* case.
C13_EmailsUniqueIgnoringCase ==
  \A e1, e2 \in DOMAIN users : Lower(e1) = Lower(e2) => e1 = e2

\* C14: a login that follows the registration of its email and is decided
\* on its credentials succeeds exactly when it carries the password the
\* identity was registered with.
C14_OnlyTheRegisteredPassword ==
  [][(/\ resp.op = "register" /\ resp.status = 200
      /\ resp'.op = "login" /\ resp'.sub = resp.sub
      /\ resp'.status \in {200, 401})
       => (resp'.status = 200 <=> resp'.password = resp.password)]_vars

\* ===================================================== properties: owners
\* the routes that work on the todo table
TodoOps == {"create_todo", "list_todos", "get_todo", "update_todo", "delete_todo"}

\* C15: a todo operation run for user U leaves every row of another owner
\* as it was; a listing returns ids of U's rows only; get, update and
\* delete of a row of another owner answer 404 "not found", as for an id
\* that is not in the table, and change nothing.
C15_OwnerIsolation ==
  [][\A cr \in OwnerCreds(now) :
       Identified(cr, now, users) =>
         LET uid == users[cr.token.sub].id
             mine == {r \in todos : r.owner_id = uid}
         IN
         /\ (resp'.op \in TodoOps /\ resp'.cred = cr)
               => /\ todos \ mine \subseteq todos'
                  /\ resp'.items \subseteq {r.id : r \in mine}
         /\ \A id \in TodoIds :
              (/\ \E r \in todos \ mine : r.id = id
               /\ \/ get_todo("ip1", cr, id)
                  \/ delete_todo("ip1", cr, id)
                  \/ \E u \in TodoUpdates : update_todo("ip1", cr, id, u))
                => /\ resp'.status = 404
                   /\ resp'.detail = "Todo not found"
                   /\ todos' = todos]_vars

\* a delete aimed at the row of another owner was answered 404 and the row
\* is still there
C15_Witness ==
  /\ resp.op = "delete_todo" /\ resp.status = 404
  /\ Identified(resp.cred, now, users)
  /\ \E r \in todos : r.owner_id # users[resp.cred.token.sub].id

\* ====================================================== properties: threads
\* C16: whatever the interleaving of login requests, every failure that was
\* answered 401 and is less than 15 minutes old, with no successful login
\* of the client since, is still counted in the client's stored list.
C16_NoRecordedFailureLost ==
  \A c \in Clients :
    YoungCount(attempts_of(failed_attempts, c), now) >= YoungCount(recorded[c], now)

\* ============================================== properties: order of checks
\* C17: a request to a todo route that is rejected for its token (401) has
\* been counted by the rate limiter: the counter of its client for that
\* route has grown by one.
C17_RejectedTokenWasCounted ==
  [][(resp'.op \in TodoOps /\ resp'.status = 401)
       => LET key == <<resp'.client, resp'.op>> IN
          /\ key \in DOMAIN rate'
          /\ LiveCount(rate', key, now) = LiveCount(rate, key, now) + 1]_vars

\* C18: a login that finds its client's counter at the limit is answered
\* 429 "Rate limit exceeded" before the body runs: no token, and the
\* client's stored attempts and the record of its failures stay exactly as
\* they were (nothing appended, nothing pruned, nothing deleted).
C18_LimitedLoginTouchesNothing ==
  [][\A c \in Clients :
       (LoginStep(c) /\ LiveCount(rate, <<c, "login">>, now) >= LOGIN_LIMIT)
         => /\ resp'.status = 429
            /\ resp'.detail = "Rate limit exceeded"
            /\ ~resp'.body
            /\ resp'.token = NoToken
            /\ failed_attempts' = failed_attempts
            /\ recorded' = recorded]_vars

\* a login with the right password was turned away by the limiter while
\* the client had failures on record
C18_Witness ==
  /\ resp.op = "login" /\ resp.status = 429
  /\ resp.detail = "Rate limit exceeded"
  /\ resp.good
  /\ resp.client \in DOMAIN failed_attempts
  /\ Len(failed_attempts[resp.client]) >= 1

\* ================================================ properties: lockout ends
\* C19 (as stated): a client whose stored list holds five or more failures
\* of which fewer than five are less than 15 minutes old has its next
\* login decided on the credentials: 200 if they verify, 401 if not.
C19_Original ==
  [][\A c \in Clients :
       (/\ LoginStep(c)
        /\ Len(attempts_of(failed_attempts, c)) >= MAX_FAILED_ATTEMPTS
        /\ YoungCount(attempts_of(failed_attempts, c), now) < MAX_FAILED_ATTEMPTS)
         => /\ resp'.status \in {200, 401}
            /\ (resp'.status = 200) <=> resp'.good]_vars

\* C19: when fewer than five of the client's stored failures are less than
\* 15 minutes old, is_ip_blocked is false although nothing was cleared,
\* and a login that the rate limiter admits is decided on the credentials:
\* 200 if they verify, 401 if not.
C19_LockoutEndsWithTime ==
  [][\A c \in Clients :
       (/\ LoginStep(c)
        /\ YoungCount(attempts_of(failed_attempts, c), now) < MAX_FAILED_ATTEMPTS
        /\ LiveCount(rate, <<c, "login">>, now) < LOGIN_LIMIT)
         => /\ ~is_ip_blocked(failed_attempts, c, now)
            /\ resp'.status \in {200, 401}
            /\ (resp'.status = 200) <=> resp'.good]_vars

\* a login succeeded for a client whose five failures had all aged out and
\* were still stored when the request came in
C19_Witness ==
  /\ resp.op = "login" /\ resp.status = 200
  /\ resp.aged >= MAX_FAILED_ATTEMPTS
  /\ now >= Minutes(BLOCK_DURATION)

\* ============================================== properties: limiter window
\* C20: at every instant, for every client and limited route, the requests
\* the limiter accepted during the last minute (the trailing window) are
\* no more than the route's limit.
C20_SlidingWindow ==
  \A key \in DOMAIN accepted :
    Cardinality({i \in DOMAIN accepted[key] :
                   now - accepted[key][i] < Minutes(RATE_WINDOW)})
      <= RouteLimit(key[2])

\* ============================================= properties: limiter keying
\* the routes that carry a limiter
LimitedRoutes == {"login", "create_todo", "list_todos"}

\* C21: a request of client A to route R leaves the live counter of every
\* other (client, route) pair as it was, and a request is rejected by the
\* limiter only when the counter of its own pair is at the route's limit.
C21_BudgetPerClientAndRoute ==
  [][(resp'.op \in LimitedRoutes /\ now' = now)
       => /\ \A c \in Clients, route \in LimitedRoutes :
               (<<c, route>> # <<resp'.client, resp'.op>>)
                 => LiveCount(rate', <<c, route>>, now)
                      = LiveCount(rate, <<c, route>>, now)
          /\ (resp'.op \in LimitedRoutes
                /\ LiveCount(rate, <<resp'.client, resp'.op>>, now)
                     < RouteLimit(resp'.op))
                 => resp'.detail # "Rate limit exceeded"]_vars

\* a client over its login budget lists its todos while the other client
\* has logged in
C21_Witness ==
  \E c, d \in Clients :
    /\ c # d
    /\ resp.op = "list_todos" /\ resp.client = c /\ resp.status = 200
    /\ LiveCount(rate, <<c, "login">>, now) > LOGIN_LIMIT
    /\ LiveCount(rate, <<d, "login">>, now) >= 1

\* ============================================= properties: tracker keying
\* C22: a login of client A, against any account, leaves is_ip_blocked and
\* the stored list of every other client B as they were; every 401 of A,
\* whichever account it was aimed at, adds one young entry to A's own
\* list, so failures against different accounts count together.
C22_LockoutPerClient ==
  [][\A c \in Clients :
       LoginStep(c)
         => /\ \A d \in Clients \ {c} :
                 /\ is_ip_blocked(failed_attempts', d, now)
                      = is_ip_blocked(failed_attempts, d, now)
                 /\ attempts_of(failed_attempts', d) = attempts_of(failed_attempts, d)
            /\ (resp'.status = 401)
                 => /\ resp'.sub \in Emails
                    /\ YoungCount(attempts_of(failed_attempts', c), now)
                         = YoungCount(attempts_of(failed_attempts, c), now) + 1]_vars

\* a failure against the account that is not registered was the fifth of a
\* client and locked it out, while the registered account exists and the
\* other client, with failures of its own, is not locked out
C22_Witness ==
  \E c, d \in Clients :
    /\ c # d
    /\ resp.op = "login" /\ resp.client = c /\ resp.status = 401
    /\ resp.sub = "b@x.com" /\ "a@x.com" \in DOMAIN users
    /\ is_ip_blocked(failed_attempts, c, now)
    /\ Len(attempts_of(failed_attempts, d)) >= 1
    /\ ~is_ip_blocked(failed_attempts, d, now)

\* ============================================ properties: stateless tokens
\* C23: what the guard answers for a token depends on the token, the key,
\* the time and the stored identity only.  A login (accepted, failed,
\* locked out or rate limited) or the issuance of another token changes
\* the guard's answer for no credential; and a request to a current-user
\* endpoint with a token that validates for a stored identity is answered
\* 200 with that identity, a request whose token does not validate is not,
\* whatever the tracker and the limiter hold.
C23_ValidityStateless ==
  [][/\ (resp'.op \in {"login", "issue"})
          => \A cr \in CredInputs(now) \cup {Bearer(resp'.token)} :
               get_current_user(cr, users', now')
                 = get_current_user(cr, users, now)
     /\ (resp'.op \in {"me", "me_cloud"})
          => IF Identified(resp'.cred, now, users)
               THEN /\ resp'.status = 200
                    /\ resp'.user.email = resp'.cred.token.sub
               ELSE resp'.status # 200]_vars

\* a client that is locked out of login is answered 200 by the guarded
\* current-user endpoint for a token it holds
C23_Witness ==
  /\ resp.op = "me_cloud" /\ resp.status = 200
  /\ is_ip_blocked(failed_attempts, "ip1", now)

\* ===================================== properties: unknown email or password
\* C24: a login with an email that is not registered and a login with a
\* registered email and another password than the registered one get, from
\* the same state, the same answer and the same effect: both are the
\* value below, which is computed from the client's counter and stored
\* failures alone. Where neither the limiter nor the lockout stops the
\* request that is 401 "Incorrect email or password" with the header
\* WWW-Authenticate: Bearer and one timestamp appended.
C24_FailuresIndistinguishable ==
  [][\A c \in Clients :
       (/\ LoginStep(c)
        /\ \/ resp'.sub \notin DOMAIN users
           \/ resp'.password # Secret1)
         => LET young == StillYoung(attempts_of(failed_attempts, c), now)
                answer == <<resp'.status, resp'.detail, resp'.headers, resp'.token>>
            IN
            IF LiveCount(rate, <<c, "login">>, now) >= LOGIN_LIMIT
              THEN /\ answer = <<429, "Rate limit exceeded", "", NoToken>>
                   /\ failed_attempts' = failed_attempts
            ELSE IF Len(young) >= MAX_FAILED_ATTEMPTS
              THEN /\ answer = <<429, "Too many failed attempts", "", NoToken>>
                   /\ attempts_of(failed_attempts', c) = young
            ELSE /\ answer = <<401, "Incorrect email or password",
                               "WWW-Authenticate: Bearer", NoToken>>
                 /\ attempts_of(failed_attempts', c) = Append(young, now)]_vars

\* a wrong password for the registered account was answered 401 after an
\* earlier failure of the same client
C24_Witness ==
  /\ resp.op = "login" /\ resp.status = 401
  /\ resp.sub \in DOMAIN users /\ resp.password = Wrong1
  /\ Len(attempts_of(failed_attempts, resp.client)) >= 2

\* ================================================ properties: stored hash
\* C25: a login that reaches the password check of an identity whose
\* stored hash is no valid hash is answered 401, with its failure recorded.
C25_MalformedHashUnauthorized ==
  (/\ resp.op = "login"
   /\ resp.sub \in DOMAIN users
   /\ users[resp.sub].hashed_password = MalformedHash
   /\ resp.status # 429)
    => /\ resp.status = 401
       /\ Len(attempts_of(failed_attempts, resp.client)) >= 1

\* =============================================== properties: during lockout
\* C26: while five of a client's stored failures are less than 15 minutes
\* old, every login of the client that the limiter lets through is answered
\* 429 "Too many failed attempts" without a token, whether or not the
\* credentials verify, and the client's young failures stay as they were;
\* and in every state the client is locked out exactly while the fifth
\* latest stored failure is less than 15 minutes old.
C26_LockedLoginChangesNothing ==
  /\ [](\A c \in Clients :
         LET h == attempts_of(failed_attempts, c) IN
         is_ip_blocked(failed_attempts, c, now)
           <=> (/\ Len(h) >= MAX_FAILED_ATTEMPTS
                /\ now - h[Len(h) - MAX_FAILED_ATTEMPTS + 1] < Minutes(15)))
  /\ [][\A c \in Clients :
         (/\ LoginStep(c)
          /\ LiveCount(rate, <<c, "login">>, now) < LOGIN_LIMIT
          /\ YoungCount(attempts_of(failed_attempts, c), now) >= MAX_FAILED_ATTEMPTS)
           => /\ resp'.status = 429
              /\ resp'.detail = "Too many failed attempts"
              /\ resp'.token = NoToken
              /\ StillYoung(attempts_of(failed_attempts', c), now)
                   = StillYoung(attempts_of(failed_attempts, c), now)
              /\ recorded' = recorded]_vars

\* half a minute before the lockout ends, a login with the right password
\* was answered "Too many failed attempts"
C26_Witness ==
  /\ resp.op = "login" /\ resp.status = 429
  /\ resp.detail = "Too many failed attempts"
  /\ resp.good
  /\ now = Minutes(BLOCK_DURATION) - 1
  /\ attempts_of(failed_attempts, resp.client)[1] = 0

\* ============================================= properties: size of the list
\* C27: with requests handled one at a time, no client's stored list ever
\* holds more than five timestamps: a login answered 401 found fewer than
\* five stored entries younger than 15 minutes and leaves those plus its
\* own timestamp; a login answered otherwise does not make the list longer.
C27_AtMostFiveStored ==
  /\ [](\A c \in Clients :
         Len(attempts_of(failed_attempts, c)) <= MAX_FAILED_ATTEMPTS)
  /\ [][\A c \in Clients :
         LET young == StillYoung(attempts_of(failed_attempts, c), now) IN
         LoginStep(c)
           => IF resp'.status = 401
                THEN /\ Len(young) < MAX_FAILED_ATTEMPTS
                     /\ attempts_of(failed_attempts', c) = Append(young, now)
                ELSE Len(attempts_of(failed_attempts', c))
                       <= Len(attempts_of(failed_attempts, c))]_vars

\* the list is full again after a failure whose request first dropped an
\* entry that had become 15 minutes old
C27_Witness ==
  /\ resp.op = "login" /\ resp.status = 401
  /\ resp.aged >= 1
  /\ Len(attempts_of(failed_attempts, resp.client)) = MAX_FAILED_ATTEMPTS

\* ========================================= properties: clearing in threads
\* C28: whatever the interleaving, a login whose credentials verify and
\* that neither the limiter nor the lockout turned away is answered 200
\* with a token.
C28_VerifiedLoginGetsToken ==
  (resp.op = "login" /\ resp.good /\ resp.status # 429)
    => (resp.status = 200 /\ resp.token # NoToken)

\* ======================================== properties: registering in threads
\* C29: whatever the interleaving of register calls, a call is answered
\* 200, having stored its identity, or 400; none ends in another error.
C29_RegisterSucceedsOrConflicts ==
  resp.op = "register"
    => \/ resp.status = 200 /\ resp.sub \in DOMAIN users
       \/ resp.status = 400

====
